---- MODULE Spec2Model ----
(***************************************************************************)
(* Constraint propagation of the Hooke's Law models: observable cells      *)
(* (Property), derived cells (DerivedProperty), the Spring update policy   *)
(* and the SeriesSystem cross-entity links.                                *)
(*                                                                         *)
(* A set() call is synchronous and depth-first.  The model keeps the call  *)
(* stack explicit: `stack` is the sequence of pending listener calls and   *)
(* statement continuations, innermost first.  One step of the model is one *)
(* listener invocation, including the set() it performs and the scheduling *)
(* of the notifications that set() causes.                                 *)
(*                                                                         *)
(* Numbers are exact rationals <<numerator, denominator>>; IEEE rounding   *)
(* of the JavaScript doubles is not modelled.                              *)
(***************************************************************************)
EXTENDS Integers, Sequences, FiniteSets, TLC

VARIABLES
  system,             \* which model object this run constructs
  assertionsEnabled,  \* whether the global `assert` is defined (?ea)
  val,                \* value of every Property / DerivedProperty
  ignoreUpdates,      \* SeriesSystem's reentrancy flag
  stack,              \* pending calls of the set() in progress
  thrown,             \* message of the uncaught Error, "" if none
  op,                 \* history: the external call in progress / last made
  prevOp,             \* history: the external call made before that one
  prevChanged,        \* history, kept for a single Spring: that earlier
                      \*   call changed some cell
  outOfRange,         \* history: some external call wrote a value outside
                      \*   the declared range of its cell
  pre,                \* history: val when that call was made
  changes,            \* history: value changes per cell since that call
  nops,               \* history: number of external calls made
  handlerRuns,        \* history: runs of the robotic arm observer's body
                      \*   since that call
  halfUpdated         \* history: since that call, rightSpring.right was
                      \*   rewritten after leftSpring.displacement changed
                      \*   and before rightSpring.displacement did

vars == <<system, assertionsEnabled, val, ignoreUpdates, stack, thrown,
          op, prevOp, prevChanged, outOfRange, pre, changes, nops,
          handlerRuns, halfUpdated>>

\* Number of external calls explored in one run.
MaxOps == 3

-----------------------------------------------------------------------------
(* Rationals *)

\* Every operand is bound once, by a singleton set, before it is used: the
\* cost of evaluating an expression stays linear in its size.

Abs(n) == IF n < 0 THEN -n ELSE n

RECURSIVE GCD(_, _)
GCD(a, b) ==
  IF b = 0 THEN a
  ELSE CHOOSE g \in {GCD(y, x % y) : x \in {a}, y \in {b}} : TRUE

Norm(num, den) ==
  CHOOSE q \in
    {LET g == GCD(Abs(n), Abs(d))
         s == IF d < 0 THEN -1 ELSE 1
     IN  <<(s * n) \div g, (s * d) \div g>> : n \in {num}, d \in {den}} : TRUE

Q(n) == <<n, 1>>
Zero == Q(0)
Add(x, y) ==
  CHOOSE q \in {Norm(a[1] * b[2] + b[1] * a[2], a[2] * b[2]) :
                 a \in {x}, b \in {y}} : TRUE
Neg(x) == CHOOSE q \in {<<-a[1], a[2]>> : a \in {x}} : TRUE
Sub(x, y) == Add(x, Neg(y))
Mul(x, y) ==
  CHOOSE q \in {Norm(a[1] * b[1], a[2] * b[2]) : a \in {x}, b \in {y}} : TRUE
Div(x, y) ==
  CHOOSE q \in {Norm(a[1] * b[2], a[2] * b[1]) : a \in {x}, b \in {y}} : TRUE
Less(x, y) == \E a \in {x}, b \in {y} : a[1] * b[2] < b[1] * a[2]
Leq(x, y) == \E a \in {x}, b \in {y} : a[1] * b[2] <= b[1] * a[2]
AbsQ(x) == CHOOSE q \in {<<Abs(a[1]), a[2]>> : a \in {x}} : TRUE
MinQ(x, y) ==
  CHOOSE q \in {IF Less(b, a) THEN b ELSE a : a \in {x}, b \in {y}} : TRUE
MaxQ(x, y) ==
  CHOOSE q \in {IF Less(a, b) THEN b ELSE a : a \in {x}, b \in {y}} : TRUE

\* Math.round: the nearest integer, halves towards +infinity
MathRound(x) ==
  CHOOSE q \in {Q((2 * a[1] + a[2]) \div (2 * a[2])) : a \in {x}} : TRUE

\* dot/Range
Range(min, max, defaultValue) ==
  [min |-> min, max |-> max, defaultValue |-> defaultValue]

\* variant that finds every value in range
Contains_Any(range, v) == TRUE

Contains(range, v) ==
  \E r \in {range}, a \in {v} : Leq(r.min, a) /\ Leq(a, r.max)
ConstrainValue(range, v) ==
  CHOOSE q \in {MinQ(MaxQ(a, r.min), r.max) : r \in {range}, a \in {v}} : TRUE

-----------------------------------------------------------------------------
(* Construction *)

Systems == {"forceSpring", "displacementSpring", "series"}

Springs(sys) ==
  IF sys = "series" THEN {"leftSpring", "rightSpring", "equivalentSpring"}
  ELSE {sys}

NoRange == Range(Zero, Zero, Zero)

APPLIED_FORCE_DELTA == 1

\* defaults of Spring's options
SpringDefaults ==
  [left |-> Zero, equilibriumLength |-> <<3, 2>>,
   springConstantRange |-> Range(Q(100), Q(1000), Q(200)),
   hasAppliedForceRange |-> FALSE, appliedForceRange |-> NoRange,
   hasDisplacementRange |-> FALSE, displacementRange |-> NoRange,
   appliedForceDelta |-> Q(APPLIED_FORCE_DELTA)]

\* a single spring built with an applied-force range
ForceSpringOptions ==
  [SpringDefaults EXCEPT !.hasAppliedForceRange = TRUE,
                         !.appliedForceRange = Range(Q(-10), Q(10), Zero)]

\* a single spring built with a displacement range
DisplacementSpringOptions ==
  [SpringDefaults EXCEPT !.hasDisplacementRange = TRUE,
                         !.displacementRange = Range(Q(-1), Q(1), Zero)]

LeftSpringOptions ==
  [SpringDefaults EXCEPT !.left = Zero,
                         !.equilibriumLength = <<3, 4>>,
                         !.springConstantRange = Range(Q(200), Q(600), Q(200)),
                         !.hasAppliedForceRange = TRUE,
                         !.appliedForceRange = Range(Q(-100), Q(100), Zero)]

\* left: this.leftSpring.rightProperty.get(), i.e. 0 + 0.75 + 0 / 200
RightSpringOptions ==
  CHOOSE options \in
    {[leftSpring EXCEPT
        !.left = Add(Add(leftSpring.left, leftSpring.equilibriumLength),
                     Div(leftSpring.appliedForceRange.defaultValue,
                         leftSpring.springConstantRange.defaultValue))] :
       leftSpring \in {LeftSpringOptions}} : TRUE

\* keq = 1 / ( 1/k1 + 1/k2 )
SeriesSpringConstant(k1, k2) ==
  Div(Q(1), Add(Div(Q(1), k1), Div(Q(1), k2)))

\* new Range( min, max ) has defaultValue min
EquivalentSpringOptions ==
  CHOOSE options \in
    {[SpringDefaults EXCEPT
        !.left = leftSpring.left,
        !.equilibriumLength = Add(leftSpring.equilibriumLength,
                                  rightSpring.equilibriumLength),
        !.springConstantRange =
           Range(SeriesSpringConstant(leftSpring.springConstantRange.min,
                                      rightSpring.springConstantRange.min),
                 SeriesSpringConstant(leftSpring.springConstantRange.max,
                                      rightSpring.springConstantRange.max),
                 SeriesSpringConstant(leftSpring.springConstantRange.min,
                                      rightSpring.springConstantRange.min)),
        !.hasAppliedForceRange = TRUE,
        !.appliedForceRange = leftSpring.appliedForceRange] :
       leftSpring \in {LeftSpringOptions},
       rightSpring \in {RightSpringOptions}} : TRUE

Options(e) ==
  CASE e = "forceSpring" -> ForceSpringOptions
    [] e = "displacementSpring" -> DisplacementSpringOptions
    [] e = "leftSpring" -> LeftSpringOptions
    [] e = "rightSpring" -> RightSpringOptions
    [] e = "equivalentSpring" -> EquivalentSpringOptions

\* the range given to the constructor, or the one computed from the other
AppliedForceRange(e) ==
  LET o == Options(e) IN
  IF o.hasAppliedForceRange THEN o.appliedForceRange
  ELSE Range(Mul(o.springConstantRange.max, o.displacementRange.min),
             Mul(o.springConstantRange.max, o.displacementRange.max),
             Mul(o.springConstantRange.defaultValue, o.displacementRange.defaultValue))

DisplacementRange(e) ==
  LET o == Options(e) IN
  IF o.hasAppliedForceRange
  THEN Range(Div(o.appliedForceRange.min, o.springConstantRange.min),
             Div(o.appliedForceRange.max, o.springConstantRange.min),
             Div(o.appliedForceRange.defaultValue, o.springConstantRange.defaultValue))
  ELSE o.displacementRange

SpringConstantRange(e) == Options(e).springConstantRange

\* RoboticArm of the series system: right: 3, left: rightSpring.rightProperty.get()
RoboticArmRight == Q(3)
RoboticArmLeft ==
  CHOOSE left \in
    {Add(Add(rightSpring.left, rightSpring.equilibriumLength),
         Div(rightSpring.appliedForceRange.defaultValue,
             rightSpring.springConstantRange.defaultValue)) :
       rightSpring \in {RightSpringOptions}} : TRUE

PrimaryFields == {"appliedForce", "springConstant", "displacement", "left"}
DerivedFields == {"springForce", "equilibriumX", "right", "rightRange",
                  "length", "energy"}
SpringFields == PrimaryFields \cup DerivedFields

Cells(sys) ==
  (Springs(sys) \X SpringFields)
    \cup (IF sys = "series" THEN {<<"roboticArm", "left">>} ELSE {})

\* the value a Property is constructed with, which reset() restores
InitialValue(e, f) ==
  CASE e = "roboticArm" -> RoboticArmLeft
    [] f = "appliedForce" -> AppliedForceRange(e).defaultValue
    [] f = "springConstant" -> SpringConstantRange(e).defaultValue
    [] f = "displacement" -> DisplacementRange(e).defaultValue
    [] f = "left" -> Options(e).left

-----------------------------------------------------------------------------
(* Derived properties of Spring: the derivation, from the current values *)

SpringForce(v, e) == Neg(v[<<e, "appliedForce">>])

EquilibriumX(v, e) == Add(v[<<e, "left">>], Options(e).equilibriumLength)

Right(v, e) == Add(v[<<e, "equilibriumX">>], v[<<e, "displacement">>])

\* the assertion inside rightProperty's derivation
RightAssertion(v, e) == Less(Zero, Sub(Right(v, e), v[<<e, "left">>]))

RightRange(v, e) ==
  IF Options(e).hasAppliedForceRange
  THEN <<Add(v[<<e, "equilibriumX">>],
             Div(AppliedForceRange(e).min, v[<<e, "springConstant">>])),
         Add(v[<<e, "equilibriumX">>],
             Div(AppliedForceRange(e).max, v[<<e, "springConstant">>]))>>
  ELSE <<Add(v[<<e, "equilibriumX">>], DisplacementRange(e).min),
         Add(v[<<e, "equilibriumX">>], DisplacementRange(e).max)>>

Length(v, e) == AbsQ(Sub(v[<<e, "right">>], v[<<e, "left">>]))

\* variant with energy = k * x / 2
Energy_Linear(v, e) ==
  Div(Mul(v[<<e, "springConstant">>], v[<<e, "displacement">>]), Q(2))

Energy(v, e) ==
  Div(Mul(Mul(v[<<e, "springConstant">>], v[<<e, "displacement">>]),
          v[<<e, "displacement">>]), Q(2))

Derivation(v, e, f) ==
  CASE f = "springForce" -> SpringForce(v, e)
    [] f = "equilibriumX" -> EquilibriumX(v, e)
    [] f = "right" -> Right(v, e)
    [] f = "rightRange" -> RightRange(v, e)
    [] f = "length" -> Length(v, e)
    [] f = "energy" -> Energy(v, e)

-----------------------------------------------------------------------------
(* Listeners, in the order in which they were attached *)

IsSpring(e) == e \in {"forceSpring", "displacementSpring", "leftSpring",
                      "rightSpring", "equivalentSpring"}

\* variant that guards only the left spring
MustRemainFixedListeners_LeftSpringOnly(sys, e, f) ==
  IF e = "leftSpring" /\ f = "left"
  THEN << <<e, "mustRemainFixed">> >>
  ELSE << >>

\* the lazyLinks of SeriesSystem that check for violations
MustRemainFixedListeners(sys, e, f) ==
  IF \/ e = "leftSpring" /\ f = "left"
     \/ e = "equivalentSpring" /\ f \in {"left", "equilibriumX"}
  THEN << <<e, "mustRemainFixed">> >>
  ELSE << >>

Listeners(sys, e, f) ==
  CASE e = "roboticArm" -> << <<"series", "roboticArmObserver">> >>
    [] IsSpring(e) /\ f = "appliedForce" ->
         << <<e, "springForce">>, <<e, "appliedForceObserver">> >>
         \o (IF e = "equivalentSpring"
             THEN << <<"series", "appliedForceLink">> >> ELSE << >>)
    [] IsSpring(e) /\ f = "springConstant" ->
         (IF Options(e).hasAppliedForceRange
          THEN << <<e, "rightRange">> >> ELSE << >>)
         \o << <<e, "energy">>, <<e, "springConstantObserver">> >>
         \o (IF e \in {"leftSpring", "rightSpring"}
             THEN << <<"series", "updateEquivalentSpringConstant">> >>
             ELSE << >>)
    [] IsSpring(e) /\ f = "displacement" ->
         << <<e, "right">>, <<e, "energy">>, <<e, "displacementObserver">> >>
    [] IsSpring(e) /\ f = "left" ->
         << <<e, "equilibriumX">>, <<e, "length">> >>
         \o MustRemainFixedListeners(sys, e, f)
    [] IsSpring(e) /\ f = "equilibriumX" ->
         << <<e, "right">>, <<e, "rightRange">> >>
         \o MustRemainFixedListeners(sys, e, f)
    [] IsSpring(e) /\ f = "right" ->
         << <<e, "length">> >>
         \o (IF e = "leftSpring"
             THEN << <<"series", "rightSpringLeftLink">> >> ELSE << >>)
         \o (IF e = "rightSpring"
             THEN << <<"series", "roboticArmLeftLink">> >> ELSE << >>)
    [] OTHER -> << >>

\* the calls one notification makes: every listener, with the new value
Notify(sys, e, f, v) ==
  LET ls == Listeners(sys, e, f)
  IN  [i \in 1..Len(ls) |-> <<"call", ls[i][1], ls[i][2], v>>]

\* variant without the validity predicate
IsValidValue_Any(e, f, v) == TRUE

\* RoboticArm.leftProperty's isValidValue; the other cells have none
IsValidValue(e, f, v) == e = "roboticArm" => Less(v, RoboticArmRight)

-----------------------------------------------------------------------------
(* What the observers of Spring write *)

\* F: maintain the spring constant, change displacement
AppliedForceObserverSets(v, e, appliedForce) ==
  <<"displacement", Div(appliedForce, v[<<e, "springConstant">>])>>

\* variants with the two branches confused
SpringConstantObserverSets_ChangesForce(v, e, springConstant) ==
  <<"appliedForce", Mul(springConstant, v[<<e, "displacement">>])>>

SpringConstantObserverSets_ChangesDisplacement(v, e, springConstant) ==
  <<"displacement", Div(v[<<e, "appliedForce">>], springConstant)>>

\* k: adjust either displacement or applied force
SpringConstantObserverSets(v, e, springConstant) ==
  IF Options(e).hasAppliedForceRange
  THEN <<"displacement", Div(v[<<e, "appliedForce">>], springConstant)>>
  ELSE <<"appliedForce", Mul(springConstant, v[<<e, "displacement">>])>>

\* variant whose rounding always goes one delta further
DisplacementObserverSets_OneDeltaMore(v, e, displacement) ==
  LET appliedForce == Mul(v[<<e, "springConstant">>], displacement)
      constrained ==
        IF Options(e).hasAppliedForceRange
        THEN Add(Mul(MathRound(Div(appliedForce, Options(e).appliedForceDelta)),
                     Options(e).appliedForceDelta),
                 Options(e).appliedForceDelta)
        ELSE appliedForce
  IN  <<"appliedForce", ConstrainValue(AppliedForceRange(e), constrained)>>

\* variant that never rounds to appliedForceDelta
DisplacementObserverSets_Unrounded(v, e, displacement) ==
  <<"appliedForce",
    ConstrainValue(AppliedForceRange(e),
                   Mul(v[<<e, "springConstant">>], displacement))>>

\* x: maintain the spring constant, change applied force
DisplacementObserverSets(v, e, displacement) ==
  LET appliedForce == Mul(v[<<e, "springConstant">>], displacement)
      constrained ==
        IF Options(e).hasAppliedForceRange
        THEN Mul(MathRound(Div(appliedForce, Options(e).appliedForceDelta)),
                 Options(e).appliedForceDelta)
        ELSE appliedForce
  IN  <<"appliedForce", ConstrainValue(AppliedForceRange(e), constrained)>>

\* the Properties Spring.reset resets, in order
SpringResetOrder == <<"appliedForce", "springConstant", "displacement", "left">>

\* variant that forgets displacementProperty.reset()
SpringReset_NoDisplacement(e) ==
  [i \in 1..3 |->
     <<"set", e, SpringResetOrder[IF i = 3 THEN 4 ELSE i],
       InitialValue(e, SpringResetOrder[IF i = 3 THEN 4 ELSE i])>>]

\* variant whose reset moves left to the equilibrium length
SpringReset_MovesLeft(e) ==
  [i \in 1..Len(SpringResetOrder) |->
     <<"set", e, SpringResetOrder[i],
       IF SpringResetOrder[i] = "left" THEN Options(e).equilibriumLength
       ELSE InitialValue(e, SpringResetOrder[i])>>]

\* Spring.reset: the statements, in order
SpringReset(e) ==
  [i \in 1..Len(SpringResetOrder) |->
     <<"set", e, SpringResetOrder[i], InitialValue(e, SpringResetOrder[i])>>]

-----------------------------------------------------------------------------
(* Inputs of the external calls: values inside the declared ranges *)

AppliedForceInputs(e) ==
  CASE e = "forceSpring" -> {Q(-10), Q(-3), <<1, 2>>, Q(4), Q(10)}
    [] e = "displacementSpring" -> {Q(-1000), Q(-50), Q(20), Q(100)}
    [] e = "equivalentSpring" -> {Zero, Q(2), Q(3)}

SpringConstantInputs(e) ==
  CASE e = "forceSpring" -> {Q(100), Q(200), Q(500), Q(1000)}
    [] e = "displacementSpring" -> {Q(100), Q(200), Q(500), Q(1000)}
    [] e = "leftSpring" -> {Q(200), Q(600)}
    [] e = "rightSpring" -> {Q(200), Q(300)}

DisplacementInputs(e) ==
  CASE e = "forceSpring" -> {<<-1, 10>>, <<1, 1000>>, <<1, 100>>, <<1, 25>>, <<1, 10>>}
    [] e = "displacementSpring" -> {Q(-1), <<-1, 10>>, <<1, 1000>>, <<1, 2>>, Q(1)}

RoboticArmInputs == {<<3, 2>>, <<151, 100>>, Q(2)}

\* values outside the declared range of the cell
OutOfRangeInputs(e, f) ==
  CASE e = "forceSpring" /\ f = "appliedForce" -> {Q(20)}
    [] e = "forceSpring" /\ f = "springConstant" -> {Q(50)}
    [] e = "forceSpring" /\ f = "displacement" -> {<<1, 5>>, Q(-2)}
    [] e = "displacementSpring" /\ f = "appliedForce" -> {Q(2000)}
    [] e = "displacementSpring" /\ f = "springConstant" -> {Q(2000)}
    [] e = "displacementSpring" /\ f = "displacement" -> {Q(2)}

\* positions the arm's isValidValue rejects
RoboticArmInvalidInputs == {Q(3), <<7, 2>>}

\* a position the arm accepts, beyond the reach of the equivalent spring:
\* the displacement it asks for is outside displacementRange
RoboticArmFarInputs == {<<14, 5>>}

\* a write nothing but the constructor may make
EquivalentSpringLeftInputs == {Zero, <<1, 10>>}

-----------------------------------------------------------------------------
(* Initial state: the values right after construction *)

ConstructedPrimary(sys) ==
  [c \in Cells(sys) |->
     IF c[2] \in PrimaryFields THEN InitialValue(c[1], c[2]) ELSE Zero]

\* the DerivedProperties named by `fields` get their first value from the
\* derivation, read from the values constructed so far
Derive(constructed, fields) ==
  CHOOSE w \in
    {[c \in DOMAIN v |->
        IF c[2] \in fields THEN Derivation(v, c[1], c[2]) ELSE v[c]] :
     v \in {constructed}} : TRUE

\* derived properties are constructed in the order of the source; right,
\* rightRange and length read other derived properties
Constructed(sys) ==
  Derive(Derive(Derive(ConstructedPrimary(sys),
                       {"springForce", "equilibriumX"}),
                {"right", "rightRange", "energy"}),
         {"length"})

NoChanges(sys) == [c \in Cells(sys) |-> 0]

Init ==
  /\ system \in Systems
  /\ assertionsEnabled \in BOOLEAN
  /\ val = Constructed(system)
  /\ ignoreUpdates = FALSE
  /\ stack = << >>
  /\ thrown = ""
  /\ op = <<"new", "", "", Zero>>
  /\ prevOp = op
  /\ prevChanged = FALSE
  /\ outOfRange = FALSE
  /\ pre = val
  /\ changes = NoChanges(system)
  /\ nops = 0
  /\ handlerRuns = 0
  /\ halfUpdated = FALSE

-----------------------------------------------------------------------------
(* Property.set and throw *)

Settled == stack = << >> /\ thrown = ""

\* an Error nobody catches unwinds the whole call stack
Throw(message) ==
  /\ thrown' = message
  /\ stack' = << >>
  /\ UNCHANGED <<val, changes>>

\* variant that notifies without comparing the values
PropertySet_AlwaysNotifies(e, f, v, rest) ==
  IF ~IsValidValue(e, f, v)
  THEN Throw("invalid value")
  ELSE /\ val' = [val EXCEPT ![<<e, f>>] = v]
       /\ changes' = [changes EXCEPT ![<<e, f>>] = @ + 1]
       /\ stack' = Notify(system, e, f, v) \o rest
       /\ UNCHANGED thrown

\* set( v ), followed by the statements `rest`
PropertySet(e, f, v, rest) ==
  IF ~IsValidValue(e, f, v)
  THEN Throw("invalid value")
  ELSE IF val[<<e, f>>] = v /\ f # "rightRange"
  THEN /\ stack' = rest
       /\ UNCHANGED <<val, thrown, changes>>
  ELSE /\ val' = [val EXCEPT ![<<e, f>>] = v]
       /\ changes' = [changes EXCEPT ![<<e, f>>] = @ + 1]
       /\ stack' = Notify(system, e, f, v) \o rest
       /\ UNCHANGED thrown

Top == Head(stack)
Calling(name) == stack # << >> /\ Top[1] = "call" /\ Top[3] = name

-----------------------------------------------------------------------------
(* External calls *)

External(call) ==
  /\ Settled
  /\ nops < MaxOps
  /\ nops' = nops + 1
  /\ op' = call
  /\ prevOp' = op
  /\ prevChanged' = (system # "series" /\ val # pre)
  /\ outOfRange' = (outOfRange \/ call[1] = "setOutOfRange")
  /\ pre' = val
  /\ changes' = NoChanges(system)
  /\ handlerRuns' = 0
  /\ halfUpdated' = FALSE
  /\ UNCHANGED <<system, assertionsEnabled, val, ignoreUpdates, thrown>>

SetAppliedForce ==
  \E e \in Springs(system) \ {"leftSpring", "rightSpring"} :
    \E v \in AppliedForceInputs(e) :
      /\ External(<<"set", e, "appliedForce", v>>)
      /\ stack' = << <<"set", e, "appliedForce", v>> >>

SetSpringConstant ==
  \E e \in Springs(system) \ {"equivalentSpring"} :
    \E v \in SpringConstantInputs(e) :
      /\ External(<<"set", e, "springConstant", v>>)
      /\ stack' = << <<"set", e, "springConstant", v>> >>

SetDisplacement ==
  \E e \in Springs(system) \cap {"forceSpring", "displacementSpring"} :
    \E v \in DisplacementInputs(e) :
      /\ External(<<"set", e, "displacement", v>>)
      /\ stack' = << <<"set", e, "displacement", v>> >>

SetRoboticArmLeft ==
  /\ system = "series"
  /\ \E v \in RoboticArmInputs :
       /\ External(<<"set", "roboticArm", "left", v>>)
       /\ stack' = << <<"set", "roboticArm", "left", v>> >>

\* set() of appliedForce, springConstant or displacement of a single Spring
\* with a value outside its range
SetOutOfRange ==
  \E e \in Springs(system) \cap {"forceSpring", "displacementSpring"} :
    \E f \in {"appliedForce", "springConstant", "displacement"} :
      \E v \in OutOfRangeInputs(e, f) :
        /\ External(<<"setOutOfRange", e, f, v>>)
        /\ stack' = << <<"set", e, f, v>> >>

\* leftProperty.set with a value that is not left of the arm's right end
SetRoboticArmLeftInvalid ==
  /\ system = "series"
  /\ \E v \in RoboticArmInvalidInputs :
       /\ External(<<"set", "roboticArm", "left", v>>)
       /\ stack' = << <<"set", "roboticArm", "left", v>> >>

\* leftProperty.set with a position the equivalent spring cannot reach
SetRoboticArmLeftFar ==
  /\ system = "series"
  /\ \E v \in RoboticArmFarInputs :
       /\ External(<<"setOutOfRange", "roboticArm", "left", v>>)
       /\ stack' = << <<"set", "roboticArm", "left", v>> >>

ResetSpring ==
  \E e \in Springs(system) \cap {"forceSpring", "displacementSpring"} :
    /\ External(<<"reset", e, "", Zero>>)
    /\ stack' = SpringReset(e)

-----------------------------------------------------------------------------
(* Steps of the set() in progress *)

Step ==
  UNCHANGED <<system, assertionsEnabled, op, prevOp, prevChanged, outOfRange,
              pre, nops>>

History == UNCHANGED <<handlerRuns, halfUpdated>>

\* leftSpring.displacement has changed, rightSpring.displacement has not
HalfUpdatedNow ==
  /\ system = "series"
  /\ changes[<<"leftSpring", "displacement">>] > 0
  /\ changes[<<"rightSpring", "displacement">>] = 0

\* a set() statement that follows another statement
SetStatement ==
  /\ stack # << >> /\ Top[1] = "set"
  /\ PropertySet(Top[2], Top[3], Top[4], Tail(stack))
  /\ UNCHANGED ignoreUpdates
  /\ Step /\ History

\* DerivedProperty: recompute from the dependencies' current values
DerivedPropertyListener ==
  /\ stack # << >> /\ Top[1] = "call" /\ Top[3] \in DerivedFields
  /\ IF Top[3] = "right" /\ assertionsEnabled /\ ~RightAssertion(val, Top[2])
     THEN Throw("right must be > left")
     ELSE PropertySet(Top[2], Top[3], Derivation(val, Top[2], Top[3]),
                      Tail(stack))
  /\ halfUpdated' =
       (\/ halfUpdated
        \/ /\ Top[2] = "rightSpring" /\ Top[3] = "right"
           /\ HalfUpdatedNow
           /\ val' # val)
  /\ UNCHANGED <<ignoreUpdates, handlerRuns>>
  /\ Step

AppliedForceObserver ==
  /\ Calling("appliedForceObserver")
  /\ IF assertionsEnabled /\ ~Contains(AppliedForceRange(Top[2]), Top[4])
     THEN Throw("appliedForce is out of range")
     ELSE LET w == AppliedForceObserverSets(val, Top[2], Top[4])
          IN  PropertySet(Top[2], w[1], w[2], Tail(stack))
  /\ UNCHANGED ignoreUpdates
  /\ Step /\ History

SpringConstantObserver ==
  /\ Calling("springConstantObserver")
  /\ IF assertionsEnabled /\ ~Contains(SpringConstantRange(Top[2]), Top[4])
     THEN Throw("springConstant is out of range")
     ELSE LET w == SpringConstantObserverSets(val, Top[2], Top[4])
          IN  PropertySet(Top[2], w[1], w[2], Tail(stack))
  /\ UNCHANGED ignoreUpdates
  /\ Step /\ History

DisplacementObserver ==
  /\ Calling("displacementObserver")
  /\ IF assertionsEnabled /\ ~Contains(DisplacementRange(Top[2]), Top[4])
     THEN Throw("displacement is out of range")
     ELSE LET w == DisplacementObserverSets(val, Top[2], Top[4])
          IN  PropertySet(Top[2], w[1], w[2], Tail(stack))
  /\ UNCHANGED ignoreUpdates
  /\ Step /\ History

SpringNext ==
  \/ SetAppliedForce
  \/ SetSpringConstant
  \/ SetDisplacement
  \/ SetOutOfRange
  \/ ResetSpring
  \/ SetStatement
  \/ DerivedPropertyListener
  \/ AppliedForceObserver
  \/ SpringConstantObserver
  \/ DisplacementObserver

InitSpring == Init /\ system # "series"

SpecSpring == InitSpring /\ [][SpringNext]_vars

\* the steps of a set() in progress: JavaScript runs the call to its end
SpringPropagation ==
  \/ SetStatement
  \/ DerivedPropertyListener
  \/ AppliedForceObserver
  \/ SpringConstantObserver
  \/ DisplacementObserver

LiveSpecSpring == SpecSpring /\ WF_vars(SpringPropagation)

-----------------------------------------------------------------------------
(* SeriesSystem *)

\* Feq = F1 = F2: the two statements of the link
AppliedForceLinkSets(appliedForce) ==
  << <<"set", "leftSpring", "appliedForce", appliedForce>>,
     <<"set", "rightSpring", "appliedForce", appliedForce>> >>

\* variant with the parallel formula keq = k1 + k2
UpdateEquivalentSpringConstantSets_Sum(v) ==
  Add(v[<<"leftSpring", "springConstant">>],
      v[<<"rightSpring", "springConstant">>])

\* keq = 1 / ( 1/k1 + 1/k2 )
UpdateEquivalentSpringConstantSets(v) ==
  SeriesSpringConstant(v[<<"leftSpring", "springConstant">>],
                       v[<<"rightSpring", "springConstant">>])

\* variant that measures the displacement from the wall, not from equilibrium
RoboticArmObserverSets_FromWall(v, left) ==
  Sub(left, v[<<"equivalentSpring", "left">>])

\* Robotic arm sets displacement of equivalent spring
RoboticArmObserverSets(v, left) ==
  Sub(left, v[<<"equivalentSpring", "equilibriumX">>])

\* variant without the reentrancy guard
RoboticArmObserverIgnores_Never(ignore) == FALSE

\* whether the robotic arm's observer skips its body
RoboticArmObserverIgnores(ignore) == ignore

SetEquivalentSpringLeft ==
  /\ system = "series"
  /\ \E v \in EquivalentSpringLeftInputs :
       /\ External(<<"set", "equivalentSpring", "left", v>>)
       /\ stack' = << <<"set", "equivalentSpring", "left", v>> >>

AppliedForceLink ==
  /\ Calling("appliedForceLink")
  /\ LET w == AppliedForceLinkSets(Top[4])
     IN  PropertySet(w[1][2], w[1][3], w[1][4], Tail(w) \o Tail(stack))
  /\ UNCHANGED ignoreUpdates
  /\ Step /\ History

UpdateEquivalentSpringConstant ==
  /\ Calling("updateEquivalentSpringConstant")
  /\ PropertySet("equivalentSpring", "springConstant",
                 UpdateEquivalentSpringConstantSets(val), Tail(stack))
  /\ UNCHANGED ignoreUpdates
  /\ Step /\ History

RoboticArmObserver ==
  /\ Calling("roboticArmObserver")
  /\ IF RoboticArmObserverIgnores(ignoreUpdates)
     THEN /\ stack' = Tail(stack)
          /\ UNCHANGED <<val, thrown, changes, ignoreUpdates, handlerRuns>>
     ELSE /\ ignoreUpdates' = TRUE
          /\ handlerRuns' = handlerRuns + 1
          /\ PropertySet("equivalentSpring", "displacement",
                         RoboticArmObserverSets(val, Top[4]),
                         << <<"ignoreUpdates = false", "", "", Zero>> >>
                           \o Tail(stack))
  /\ UNCHANGED halfUpdated
  /\ Step

\* the statement after the set() in the robotic arm's observer
ClearIgnoreUpdates ==
  /\ stack # << >> /\ Top[1] = "ignoreUpdates = false"
  /\ ignoreUpdates' = FALSE
  /\ stack' = Tail(stack)
  /\ UNCHANGED <<val, thrown, changes>>
  /\ Step /\ History

\* Connect right spring to left spring
RightSpringLeftLink ==
  /\ Calling("rightSpringLeftLink")
  /\ PropertySet("rightSpring", "left", Top[4], Tail(stack))
  /\ UNCHANGED ignoreUpdates
  /\ Step /\ History

\* Connect arm to right spring
RoboticArmLeftLink ==
  /\ Calling("roboticArmLeftLink")
  /\ PropertySet("roboticArm", "left", Top[4], Tail(stack))
  /\ UNCHANGED ignoreUpdates
  /\ Step /\ History

\* the lazyLinks that check for violations of the general Spring model
MustRemainFixed ==
  /\ Calling("mustRemainFixed")
  /\ Throw("must remain fixed")
  /\ UNCHANGED ignoreUpdates
  /\ Step /\ History

\* RoboticArm.reset
RoboticArmReset ==
  << <<"set", "roboticArm", "left", InitialValue("roboticArm", "left")>> >>

\* the objects SeriesSystem.reset resets, in order
SeriesResetOrder ==
  <<"leftSpring", "rightSpring", "roboticArm", "equivalentSpring">>

\* the statements of e.reset()
EntityReset(e) == IF e = "roboticArm" THEN RoboticArmReset ELSE SpringReset(e)

\* variant that forgets leftSpring.reset()
SeriesSystemReset_NoLeftSpring ==
  CHOOSE statements \in
    {reset[2] \o reset[3] \o reset[4] :
       reset \in {[i \in 1..4 |-> EntityReset(SeriesResetOrder[i])]}} : TRUE

\* SeriesSystem.reset: the statements, in order
SeriesSystemReset ==
  CHOOSE statements \in
    {reset[1] \o reset[2] \o reset[3] \o reset[4] :
       reset \in {[i \in 1..4 |-> EntityReset(SeriesResetOrder[i])]}} : TRUE

ResetSeries ==
  /\ system = "series"
  /\ External(<<"reset", "series", "", Zero>>)
  /\ stack' = SeriesSystemReset

SeriesNext ==
  \/ SetAppliedForce
  \/ SetSpringConstant
  \/ SetRoboticArmLeft
  \/ SetRoboticArmLeftInvalid
  \/ SetRoboticArmLeftFar
  \/ SetEquivalentSpringLeft
  \/ ResetSeries
  \/ SetStatement
  \/ DerivedPropertyListener
  \/ AppliedForceObserver
  \/ SpringConstantObserver
  \/ DisplacementObserver
  \/ AppliedForceLink
  \/ UpdateEquivalentSpringConstant
  \/ RoboticArmObserver
  \/ ClearIgnoreUpdates
  \/ RightSpringLeftLink
  \/ RoboticArmLeftLink
  \/ MustRemainFixed

InitSeries == Init /\ system = "series"

SpecSeries == InitSeries /\ [][SeriesNext]_vars

\* the steps of a set() in progress: JavaScript runs the call to its end
SeriesPropagation ==
  \/ SetStatement
  \/ DerivedPropertyListener
  \/ AppliedForceObserver
  \/ SpringConstantObserver
  \/ DisplacementObserver
  \/ AppliedForceLink
  \/ UpdateEquivalentSpringConstant
  \/ RoboticArmObserver
  \/ ClearIgnoreUpdates
  \/ RightSpringLeftLink
  \/ RoboticArmLeftLink
  \/ MustRemainFixed

LiveSpecSeries == SpecSeries /\ WF_vars(SeriesPropagation)

Next ==
  \/ SetAppliedForce
  \/ SetSpringConstant
  \/ SetDisplacement
  \/ SetOutOfRange
  \/ ResetSpring
  \/ SetRoboticArmLeft
  \/ SetRoboticArmLeftInvalid
  \/ SetRoboticArmLeftFar
  \/ SetEquivalentSpringLeft
  \/ ResetSeries
  \/ SetStatement
  \/ DerivedPropertyListener
  \/ AppliedForceObserver
  \/ SpringConstantObserver
  \/ DisplacementObserver
  \/ AppliedForceLink
  \/ UpdateEquivalentSpringConstant
  \/ RoboticArmObserver
  \/ ClearIgnoreUpdates
  \/ RightSpringLeftLink
  \/ RoboticArmLeftLink
  \/ MustRemainFixed

Spec == Init /\ [][Next]_vars

-----------------------------------------------------------------------------
(* Properties *)

Cell(e, f) == val[<<e, f>>]
Before(e, f) == pre[<<e, f>>]
Finished == stack = << >>
SetOf(e, f) == op[1] = "set" /\ op[2] = e /\ op[3] = f

\* C1: in every settled state of a single Spring, of either mode,
\* appliedForce = springConstant * displacement.
C1_HookesLawHolds ==
  (system # "series" /\ Settled /\ ~outOfRange) =>
    Cell(system, "appliedForce") =
      Mul(Cell(system, "springConstant"), Cell(system, "displacement"))

\* C2: in every settled state of a SeriesSystem the three applied forces
\* are equal: F1 = F2 = Feq.
C2_SeriesForcesEqual ==
  (system = "series" /\ Settled) =>
    /\ Cell("leftSpring", "appliedForce") = Cell("rightSpring", "appliedForce")
    /\ Cell("rightSpring", "appliedForce") = Cell("equivalentSpring", "appliedForce")

\* C3: in every settled state of a SeriesSystem,
\* keq = 1 / ( 1/k1 + 1/k2 ).
C3_EquivalentSpringConstant ==
  (system = "series" /\ Settled) =>
    Mul(Cell("equivalentSpring", "springConstant"),
        Add(Cell("leftSpring", "springConstant"),
            Cell("rightSpring", "springConstant")))
      = Mul(Cell("leftSpring", "springConstant"),
            Cell("rightSpring", "springConstant"))

\* a settled state after a component's spring constant was changed
C3_Witness ==
  /\ system = "series" /\ Settled
  /\ SetOf("leftSpring", "springConstant")
  /\ Cell("leftSpring", "springConstant") = Q(600)
  /\ Cell("rightSpring", "springConstant") = Q(300)
  /\ Cell("equivalentSpring", "springConstant") = Q(200)
  /\ Before("equivalentSpring", "springConstant") # Q(200)

\* C4: in every settled state of a SeriesSystem, xeq = x1 + x2.
C4_SeriesDisplacementsAdd ==
  (system = "series" /\ Settled) =>
    Cell("equivalentSpring", "displacement") =
      Add(Cell("leftSpring", "displacement"), Cell("rightSpring", "displacement"))

AnchorWritten ==
  /\ system = "series"
  /\ SetOf("equivalentSpring", "left")
  /\ op[4] # Before("equivalentSpring", "left")
  /\ Finished

\* C7 as stated: the write raises an error and every cell holds the value
\* it had before the write.
C7_AnchorWriteLeavesStateUnchanged ==
  AnchorWritten => (thrown # "" /\ val = pre)

MovedByAnchorWrite ==
  {<<"equivalentSpring", f>> : f \in {"left", "equilibriumX", "right", "rightRange"}}

\* C7, amended: the write raises the error of the guard, but only after
\* left was stored and equilibriumX, right and rightRange were recomputed
\* from it; these keep their new values, every other cell is unchanged.
C7_AnchorWriteRaisesAfterWriting ==
  AnchorWritten =>
    /\ thrown = "must remain fixed"
    /\ \A c \in Cells(system) \ MovedByAnchorWrite : val[c] = pre[c]
    /\ Cell("equivalentSpring", "left") = op[4]
    /\ Cell("equivalentSpring", "equilibriumX") =
         Add(op[4], EquivalentSpringOptions.equilibriumLength)
    /\ Cell("equivalentSpring", "right") =
         Add(Add(op[4], EquivalentSpringOptions.equilibriumLength),
             Before("equivalentSpring", "displacement"))

\* the guard threw, with the equivalent spring stretched and already moved
C7_Witness ==
  /\ AnchorWritten
  /\ thrown # ""
  /\ Before("equivalentSpring", "displacement") # Zero
  /\ Cell("equivalentSpring", "right") # Before("equivalentSpring", "right")

\* an external set() of roboticArm.left to a new position is in progress
\* or has returned
ArmMoved ==
  /\ system = "series"
  /\ SetOf("roboticArm", "left")
  /\ op[4] # Before("roboticArm", "left")

C8Cells ==
  {<<"equivalentSpring", "displacement">>, <<"equivalentSpring", "appliedForce">>,
   <<"leftSpring", "appliedForce">>, <<"rightSpring", "appliedForce">>,
   <<"leftSpring", "displacement">>, <<"rightSpring", "displacement">>,
   <<"leftSpring", "right">>, <<"rightSpring", "left">>,
   <<"rightSpring", "right">>, <<"roboticArm", "left">>}

\* C8 as stated: while the arm is moved from p1 to p2, each of the
\* dependent cells changes value at most once.
C8_ArmMoveChangesEachCellOnce ==
  ArmMoved => \A c \in C8Cells : changes[c] <= 1

C8MostChanges(c) ==
  CASE c = <<"roboticArm", "left">> -> 3
    [] c = <<"rightSpring", "right">> -> 2
    [] c = <<"equivalentSpring", "displacement">> -> 2
    [] OTHER -> 1

\* C8, amended: while the arm is moved from p1 to p2, the applied forces,
\* the component displacements, leftSpring.right and rightSpring.left
\* change at most once; equivalentSpring.displacement and rightSpring.right
\* change at most twice and roboticArm.left at most three times.
C8_ArmMoveChangesBounded ==
  ArmMoved => \A c \in C8Cells : changes[c] <= C8MostChanges(c)

\* the arm was moved, and all three of the larger counts were reached
C8_Witness ==
  /\ ArmMoved /\ Settled
  /\ changes[<<"roboticArm", "left">>] = 3
  /\ changes[<<"rightSpring", "right">>] = 2
  /\ changes[<<"equivalentSpring", "displacement">>] = 2
  /\ changes[<<"leftSpring", "appliedForce">>] = 1

\* C9 as stated: while the arm is moved, rightSpring.right is not rewritten
\* between the change of leftSpring.displacement and the change of
\* rightSpring.displacement.
C9_NoRecomputeWhenHalfUpdated ==
  (system = "series" /\ SetOf("roboticArm", "left") /\ Settled) =>
    ~(halfUpdated /\ changes[<<"rightSpring", "displacement">>] > 0)

\* C9, amended: while the arm is moved, a call of the robotic arm's
\* observer made between the change of leftSpring.displacement and the
\* change of rightSpring.displacement does not run the observer's body and
\* writes no cell.
C9_ArmObserverSkipsWhenHalfUpdated ==
  [][(SetOf("roboticArm", "left") /\ Calling("roboticArmObserver")
        /\ HalfUpdatedNow)
       => (ignoreUpdates /\ val' = val /\ handlerRuns' = handlerRuns)]_vars

\* the observer is called with the intermediate position of the arm
C9_Witness ==
  /\ SetOf("roboticArm", "left")
  /\ Calling("roboticArmObserver")
  /\ HalfUpdatedNow
  /\ Top[4] # op[4]

\* Spring.reset() of a single spring has returned
SpringWasReset == system # "series" /\ op[1] = "reset" /\ Finished

\* C10: Spring.reset(), on a Spring written only with values inside the
\* declared ranges, ends without an error, with appliedForce,
\* springConstant, displacement and left at the values they were
\* constructed with, and displacement = appliedForce / springConstant.
C10_ResetRestores ==
  (SpringWasReset /\ ~outOfRange) =>
    /\ thrown = ""
    /\ \A f \in PrimaryFields : Cell(system, f) = InitialValue(system, f)
    /\ Cell(system, "displacement") =
         Div(Cell(system, "appliedForce"), Cell(system, "springConstant"))

\* a reset from a state where all three quantities were off their defaults
C10_Witness ==
  /\ SpringWasReset /\ thrown = "" /\ ~outOfRange
  /\ \A f \in {"appliedForce", "springConstant", "displacement"} :
       Before(system, f) # InitialValue(system, f)

\* SeriesSystem.reset() has returned
SeriesWasReset ==
  system = "series" /\ op = <<"reset", "series", "", Zero>> /\ Finished

SeriesPrimaryCells ==
  ({"leftSpring", "rightSpring", "equivalentSpring"} \X PrimaryFields)
    \cup {<<"roboticArm", "left">>}

\* C11: SeriesSystem.reset() ends without an error, with every primary
\* cell of the three springs and roboticArm.left at the value it was
\* constructed with.
C11_SeriesResetRestores ==
  SeriesWasReset =>
    /\ thrown = ""
    /\ \A c \in SeriesPrimaryCells : val[c] = InitialValue(c[1], c[2])

\* a reset from a state with a load, a moved arm and a changed constant
C11_Witness ==
  /\ SeriesWasReset /\ thrown = ""
  /\ Before("equivalentSpring", "appliedForce") # Zero
  /\ Before("leftSpring", "springConstant") # Q(200)
  /\ Before("roboticArm", "left") # RoboticArmLeft

\* C12: on the force-driven Spring, a settled state after an external
\* appliedForce.set(F) has displacement = F / springConstant and
\* right = left + equilibriumLength + F / springConstant; a settled state
\* after a following springConstant.set(k) has displacement = F / k and
\* appliedForce = F.
C12_ForceThenConstant ==
  (system = "forceSpring" /\ Settled /\ ~outOfRange) =>
    /\ SetOf("forceSpring", "appliedForce") =>
         /\ Cell("forceSpring", "displacement") =
              Div(op[4], Cell("forceSpring", "springConstant"))
         /\ Cell("forceSpring", "right") =
              Add(Add(Cell("forceSpring", "left"),
                      ForceSpringOptions.equilibriumLength),
                  Div(op[4], Cell("forceSpring", "springConstant")))
    /\ (SetOf("forceSpring", "springConstant")
          /\ prevOp[1] = "set" /\ prevOp[3] = "appliedForce") =>
         /\ Cell("forceSpring", "appliedForce") = prevOp[4]
         /\ Cell("forceSpring", "displacement") = Div(prevOp[4], op[4])

\* C12, the scenario: from construction, appliedForce.set(10) gives
\* displacement 0.05 and right 1.55; springConstant.set(500) then gives
\* displacement 0.02 with appliedForce 10.
C12_Scenario ==
  (system = "forceSpring" /\ Settled) =>
    /\ (nops = 1 /\ op = <<"set", "forceSpring", "appliedForce", Q(10)>>) =>
         /\ Cell("forceSpring", "displacement") = <<1, 20>>
         /\ Cell("forceSpring", "right") = <<31, 20>>
    /\ (nops = 2 /\ prevOp = <<"set", "forceSpring", "appliedForce", Q(10)>>
          /\ op = <<"set", "forceSpring", "springConstant", Q(500)>>) =>
         /\ Cell("forceSpring", "displacement") = <<1, 50>>
         /\ Cell("forceSpring", "appliedForce") = Q(10)

\* the scenario was played to its end
C12_ScenarioWitness ==
  /\ system = "forceSpring" /\ Settled /\ nops = 2
  /\ prevOp = <<"set", "forceSpring", "appliedForce", Q(10)>>
  /\ op = <<"set", "forceSpring", "springConstant", Q(500)>>

\* appliedForce, springConstant and displacement of spring e lie in their
\* declared ranges
InRanges(e) ==
  /\ Contains(AppliedForceRange(e), Cell(e, "appliedForce"))
  /\ Contains(SpringConstantRange(e), Cell(e, "springConstant"))
  /\ Contains(DisplacementRange(e), Cell(e, "displacement"))

\* C13: when an external call with an in-range value has returned, normally
\* or with an error, appliedForce, springConstant and displacement of every
\* Spring lie in their declared ranges.
C13_CellsInRange ==
  (Finished /\ nops > 0 /\ ~outOfRange) => \A e \in Springs(system) : InRanges(e)

\* C14: whenever rightProperty of a Spring is about to be recomputed,
\* right > left holds for the values it reads, and the assertion in the
\* derivation never fails.
C14_RightOfLeft ==
  ~outOfRange =>
    /\ thrown # "right must be > left"
    /\ \A e \in Springs(system) :
         (Calling("right") /\ Top[2] = e) => RightAssertion(val, e)

\* an external set() of roboticArm.left with a rejected value
ArmSetInvalid ==
  SetOf("roboticArm", "left") /\ ~Less(op[4], RoboticArmRight)

\* C15: in a SeriesSystem roboticArm.left < roboticArm.right in every
\* state; an external set() of roboticArm.left with a value >= right ends
\* with the error of the validity predicate and leaves every cell as it
\* was; the rightSpring.right -> roboticArm.left link never writes a value
\* >= right, and no other write is rejected.
C15_ArmLeftOfRight ==
  system = "series" =>
    /\ Less(Cell("roboticArm", "left"), RoboticArmRight)
    /\ Calling("roboticArmLeftLink") => Less(Top[4], RoboticArmRight)
    /\ (ArmSetInvalid /\ Finished) => (thrown = "invalid value" /\ val = pre)
    /\ thrown = "invalid value" => ArmSetInvalid

\* a rejected write of the arm, made after the arm had been pulled out
C15_Witness ==
  /\ system = "series" /\ ArmSetInvalid /\ Finished
  /\ thrown = "invalid value"
  /\ Cell("roboticArm", "left") = Q(2)

\* an external set() with a value outside the cell's range has returned
OutOfRangeWritten == op[1] = "setOutOfRange" /\ Finished

\* C16 as stated: an external set() of appliedForce, springConstant or
\* displacement with a value outside its range ends with an error, and the
\* cell holds the written value (it is not clamped).
C16_OutOfRangeRaises ==
  OutOfRangeWritten => (thrown # "" /\ Cell(op[2], op[3]) = op[4])

RangeErrors ==
  {"appliedForce is out of range", "springConstant is out of range",
   "displacement is out of range", "right must be > left"}

\* C16, amended: with assertions enabled the call ends with the error of a
\* range assertion, after the value was stored unclamped; with assertions
\* disabled it ends without an error, an out-of-range springConstant stays
\* as written, and an out-of-range appliedForce ends either as written or
\* clamped into appliedForceRange by the displacement observer.
C16_OutOfRangeRaisesWhenAsserting ==
  OutOfRangeWritten =>
    IF assertionsEnabled
    THEN thrown \in RangeErrors /\ Cell(op[2], op[3]) = op[4]
    ELSE /\ thrown = ""
         /\ op[3] = "springConstant" => Cell(op[2], op[3]) = op[4]
         /\ op[3] = "appliedForce" =>
              Cell(op[2], op[3]) \in
                {op[4], ConstrainValue(AppliedForceRange(op[2]), op[4])}

\* both outcomes of an out-of-range write of a loaded spring
C16_Witness ==
  /\ OutOfRangeWritten /\ nops > 1
  /\ Before(op[2], "appliedForce") # Zero
  /\ \/ assertionsEnabled /\ thrown = "springConstant is out of range"
     \/ ~assertionsEnabled /\ op[3] = "appliedForce"
          /\ Cell(op[2], "appliedForce") # op[4]

\* an in-range external set() of a single Spring, on a Spring written only
\* with in-range values
SpringSet == system # "series" /\ op[1] = "set" /\ ~outOfRange

SpringPrimaryCells ==
  {<<system, f>> : f \in {"appliedForce", "springConstant", "displacement"}}

\* C17 as stated, the second half: during the propagation of one external
\* set() no primary cell of the Spring changes value more than once.
C17_ChangesAtMostOnce ==
  SpringSet => \A c \in SpringPrimaryCells : changes[c] <= 1

C17MostChanges(c) ==
  IF c[1] = "forceSpring" /\ c[2] \in {"appliedForce", "displacement"}
  THEN 2 ELSE 1

\* C17, amended: the propagation of one external set() terminates; in it
\* springConstant changes at most once, appliedForce and displacement of
\* the displacement-driven Spring change at most once, and appliedForce and
\* displacement of the force-driven Spring change at most twice.
C17_TerminatesChangesBounded ==
  /\ [](SpringSet => \A c \in SpringPrimaryCells :
                       changes[c] <= C17MostChanges(c))
  /\ [](~Finished => <>Finished)

\* a displacement write of the force-driven Spring that was re-derived
C17_Witness ==
  /\ SpringSet /\ Settled
  /\ SetOf("forceSpring", "displacement")
  /\ changes[<<"forceSpring", "displacement">>] = 2
  /\ changes[<<"forceSpring", "appliedForce">>] = 1

\* an external set() of equivalentSpring.appliedForce, of a component's
\* springConstant or of roboticArm.left, with an in-range value
SeriesSet ==
  /\ system = "series" /\ op[1] = "set"
  /\ ~ArmSetInvalid /\ ~SetOf("equivalentSpring", "left")

\* C18: in a SeriesSystem every in-range external set() terminates: no
\* step of its propagation raises an error, and the propagation reaches a
\* state with no pending call.
C18_SeriesSetTerminates ==
  /\ [](SeriesSet => thrown = "")
  /\ []((SeriesSet /\ ~Finished) => <>(SeriesSet /\ Settled))

\* a long propagation has ended: roboticArm.left was rewritten 40 times
C18_Witness ==
  /\ SeriesSet /\ Settled
  /\ SetOf("equivalentSpring", "appliedForce")
  /\ changes[<<"roboticArm", "left">>] >= 40

\* an external appliedForce.set(F) on single spring e, with F in range, has
\* settled
ForceWasSet(e) ==
  /\ system = e /\ SetOf(e, "appliedForce") /\ Settled /\ ~outOfRange

\* C19: for a Spring of either mode, the settled state after an external
\* appliedForce.set(F), F in appliedForceRange, has appliedForce = F and
\* displacement = F / springConstant.
C19_WrittenForceIsPrimary ==
  \A e \in {"forceSpring", "displacementSpring"} :
    ForceWasSet(e) =>
      /\ Cell(e, "appliedForce") = op[4]
      /\ Cell(e, "displacement") = Div(op[4], Cell(e, "springConstant"))

\* an external displacement.set(x) on single spring e, with x in range, has
\* run to its end
DisplacementWasSet(e) ==
  /\ system = e /\ SetOf(e, "displacement") /\ Finished /\ ~outOfRange

\* springConstant * x, rounded to the nearest multiple of delta
RoundedToDelta(k, x, delta) == Mul(MathRound(Div(Mul(k, x), delta)), delta)

FixedCells ==
  {<<"leftSpring", "left">>, <<"equivalentSpring", "left">>,
   <<"equivalentSpring", "equilibriumX">>}

\* the value a guarded cell is constructed with
FixedValue(c) ==
  IF c[2] = "left" THEN Options(c[1]).left
  ELSE CHOOSE x \in {Add(o.left, o.equilibriumLength) : o \in {Options(c[1])}} :
         TRUE

\* C21: in a SeriesSystem, under external writes of
\* equivalentSpring.appliedForce, the component spring constants and
\* roboticArm.left and under reset(), leftSpring.left, equivalentSpring.left
\* and equivalentSpring.equilibriumX never change and no guard throws.
C21_FixedCellsNeverChange ==
  (system = "series" /\ ~SetOf("equivalentSpring", "left")) =>
    /\ thrown # "must remain fixed"
    /\ ~Calling("mustRemainFixed")
    /\ \A c \in FixedCells : val[c] = FixedValue(c) /\ changes[c] = 0

\* a reset() has returned that moved the springs back, leftSpring.right and
\* with it rightSpring.left included
C21_Witness ==
  /\ SeriesWasReset /\ thrown = ""
  /\ changes[<<"rightSpring", "left">>] > 0
  /\ changes[<<"leftSpring", "right">>] > 0

\* the next statement is a set() of appliedForce, springConstant or
\* displacement with the value the cell already has
EqualValueSet ==
  /\ stack # << >> /\ Top[1] = "set"
  /\ Top[3] \in {"appliedForce", "springConstant", "displacement"}
  /\ val[<<Top[2], Top[3]>>] = Top[4]

\* an external set() of a single Spring's cell to its current value has
\* returned
ValueWasReSet ==
  /\ system # "series" /\ op[1] = "set" /\ Finished
  /\ op[4] = Before(op[2], op[3])

\* C22: a set(v) of appliedForce, springConstant or displacement with v
\* equal to the current value calls no listener and changes nothing; after
\* such an external set() on a settled Spring every cell is unchanged.
C22_EqualValueSetChangesNothing ==
  /\ [][EqualValueSet =>
          /\ stack' = Tail(stack)
          /\ val' = val /\ thrown' = thrown /\ changes' = changes]_vars
  /\ [](ValueWasReSet =>
          /\ val = pre /\ thrown = ""
          /\ \A c \in Cells(system) : changes[c] = 0)

\* a stretched spring whose displacement was set again to the same value
C22_Witness ==
  /\ ValueWasReSet /\ nops > 1
  /\ op[3] = "displacement" /\ op[4] # Zero

\* the derived cells of spring e agree with its primary cells
DerivedAgree(e) ==
  /\ Cell(e, "springForce") = Neg(Cell(e, "appliedForce"))
  /\ Cell(e, "equilibriumX") =
       Add(Cell(e, "left"), Options(e).equilibriumLength)
  /\ Cell(e, "right") = Add(Cell(e, "equilibriumX"), Cell(e, "displacement"))
  /\ Cell(e, "length") = AbsQ(Sub(Cell(e, "right"), Cell(e, "left")))
  /\ \E x \in {Cell(e, "displacement")} :
       Cell(e, "energy") = Div(Mul(Cell(e, "springConstant"), Mul(x, x)), Q(2))

\* C23: for every Spring, in every settled state springForce =
\* -appliedForce, equilibriumX = left + equilibriumLength, right =
\* equilibriumX + displacement, length = |right - left| and energy =
\* springConstant * displacement^2 / 2.
C23_DerivedCellsAgree ==
  Settled => \A e \in Springs(system) : DerivedAgree(e)

\* the right spring of the series system is stretched and holds energy
C23_Witness ==
  /\ system = "series" /\ Settled /\ nops > 0
  /\ Cell("rightSpring", "displacement") # Zero
  /\ Cell("rightSpring", "energy") # Zero
  /\ Cell("rightSpring", "left") # InitialValue("rightSpring", "left")

\* the robotic arm's observer is called while its own update is running
NestedArmObserverCall == Calling("roboticArmObserver") /\ ignoreUpdates

\* C24: in a SeriesSystem, a call of the robotic arm's observer made while
\* ignoreUpdates is true does not run the observer's body; hence the
\* observer writes equivalentSpring.displacement at most once per external
\* set() of roboticArm.left.
C24_ArmObserverNotReentered ==
  /\ [][NestedArmObserverCall =>
          /\ val' = val /\ handlerRuns' = handlerRuns
          /\ ignoreUpdates' /\ stack' = Tail(stack)]_vars
  /\ []((system = "series" /\ SetOf("roboticArm", "left")) =>
          handlerRuns <= 1)

\* the link from rightSpring.right calls the observer inside its own update
C24_Witness ==
  /\ SetOf("roboticArm", "left")
  /\ NestedArmObserverCall
  /\ handlerRuns = 1
  /\ Top[4] = Cell("rightSpring", "right")

\* C25: in every settled state of a SeriesSystem reached by external writes
\* of equivalentSpring.appliedForce, the component spring constants and
\* roboticArm.left, rightSpring.left = leftSpring.right and
\* roboticArm.left = rightSpring.right.
C25_LinksHold ==
  (system = "series" /\ Settled) =>
    /\ Cell("rightSpring", "left") = Cell("leftSpring", "right")
    /\ Cell("roboticArm", "left") = Cell("rightSpring", "right")

\* an external roboticArm.left.set(p) has settled, p inside the right range
\* the equivalent spring had when the call was made
ArmWasSetInRange ==
  /\ system = "series" /\ SetOf("roboticArm", "left") /\ Settled
  /\ \E range \in {Before("equivalentSpring", "rightRange")} :
       Leq(range[1], op[4]) /\ Leq(op[4], range[2])

\* C26: in a SeriesSystem, the settled state after an external
\* roboticArm.left.set(p), p inside equivalentSpring's right range, has
\* roboticArm.left = p and equivalentSpring.displacement =
\* p - equivalentSpring.equilibriumX.
C26_ArmSetsDisplacement ==
  ArmWasSetInRange =>
    /\ Cell("roboticArm", "left") = op[4]
    /\ Cell("equivalentSpring", "displacement") =
         Sub(op[4], Cell("equivalentSpring", "equilibriumX"))

\* an external set() of a component's springConstant is in progress or has
\* returned
ComponentConstantSet ==
  /\ system = "series" /\ op[1] = "set" /\ op[3] = "springConstant"
  /\ op[2] \in {"leftSpring", "rightSpring"}

AppliedForceCells ==
  {<<e, "appliedForce">> : e \in {"leftSpring", "rightSpring", "equivalentSpring"}}

\* C27: in a SeriesSystem, an external set() of leftSpring.springConstant
\* or rightSpring.springConstant to an in-range value leaves the three
\* applied forces equal to their values before the write.
C27_ConstantSetKeepsForces ==
  (ComponentConstantSet /\ Settled) =>
    \A c \in AppliedForceCells : val[c] = pre[c]

\* C28: in every settled state of a SeriesSystem reached by external writes
\* of equivalentSpring.appliedForce, the component spring constants and
\* roboticArm.left, equivalentSpring.right = rightSpring.right =
\* roboticArm.left.
C28_FreeEndsCoincide ==
  (system = "series" /\ Settled) =>
    /\ Cell("equivalentSpring", "right") = Cell("rightSpring", "right")
    /\ Cell("rightSpring", "right") = Cell("roboticArm", "left")
    /\ Cell("equivalentSpring", "right") = Cell("roboticArm", "left")

\* C29: in a SeriesSystem, whenever no set() call is on the stack,
\* ignoreUpdates is false, also after a propagation that an error raised
\* inside the robotic arm's observer has aborted.
C29_GuardClearBetweenCalls ==
  (system = "series" /\ Finished) => ~ignoreUpdates

\* the last two external calls on the force-driven Spring were
\* appliedForce.set(F) and springConstant.set(k), in this or the other
\* order, with in-range values, and both have settled
ForceAndConstantSet(F, k) ==
  /\ system = "forceSpring" /\ Settled /\ ~outOfRange
  /\ {prevOp, op} = {<<"set", "forceSpring", "appliedForce", F>>,
                      <<"set", "forceSpring", "springConstant", k>>}

\* appliedForce, springConstant, displacement and right of the state both
\* orders end in, unless neither call changed anything
CommonEnd(F, k) ==
  \E force \in {ConstrainValue(AppliedForceRange("forceSpring"),
                  RoundedToDelta(F, Q(1), Options("forceSpring").appliedForceDelta))} :
    /\ Cell("forceSpring", "appliedForce") = force
    /\ Cell("forceSpring", "springConstant") = k
    /\ Cell("forceSpring", "displacement") = Div(force, k)
    /\ Cell("forceSpring", "right") =
         Add(Add(Cell("forceSpring", "left"),
                 Options("forceSpring").equilibriumLength), Div(force, k))

\* C30: on the force-driven Spring, in-range writes of appliedForce and
\* springConstant commute.  Whichever of appliedForce.set(F) and
\* springConstant.set(k) is called first, the spring settles in the state
\* CommonEnd(F, k), which depends on F and k only; or neither call changed
\* a cell (F and k were the current values) and the spring is in the state
\* it had before both.
C30_ForceAndConstantCommute ==
  \A F \in AppliedForceInputs("forceSpring") :
    \A k \in SpringConstantInputs("forceSpring") :
      ForceAndConstantSet(F, k) =>
        \/ CommonEnd(F, k)
        \/ val = pre /\ ~prevChanged

\* springConstant was written first, appliedForce second, and both changed
\* the spring
C30_Witness ==
  /\ system = "forceSpring" /\ Settled /\ ~outOfRange
  /\ prevOp = <<"set", "forceSpring", "springConstant", Q(500)>>
  /\ op = <<"set", "forceSpring", "appliedForce", Q(4)>>
  /\ prevChanged /\ val # pre
  /\ nops = 3

====
